---- MODULE Spec2Model ----
(***************************************************************************)
(* The three provider helpers of src/convex: IAMAdmin (roles, policies,    *)
(* instance profiles), InstanceManagement (key pairs, instances) and       *)
(* StorageBucket (buckets, bucket policies).  Each helper method is a      *)
(* short sequence of provider calls inside try/except ClientError/else.    *)
(* The provider account is part of the state; every provider call either   *)
(* answers from the account's rules or fails with an injected fault.       *)
(***************************************************************************)
EXTENDS Integers, Sequences, FiniteSets, TLC

\* ------------------------------------------------------------------ bounds
MaxLaunches == 2      \* instances the account launches in one behaviour
MaxMaterial == 3      \* key materials the provider issues in one behaviour
MaxPrefixLen == 28    \* longest bucket-name prefix handed to create_bucket_name
NumUuids == 2         \* random tokens uuid.uuid4() may draw

\* ------------------------------------------------------------- name spaces
RoleNames    == {"svc-role", "other-role"}
PolicyNames  == {"svc-policy", "extra-policy"}
InlineNames  == {"inline-a"}
ProfileNames == {"prof-a", "prof-b"}
KeyNames     == {"key-a", "key-b"}
KeyFiles     == {"key.pem"}
BucketNames  == {"sth-uuid1", "sth-uuid2"}
Callers      == {"A", "B"}

\* A fault of the provider that the account's rules do not explain
\* (throttling, lost credentials, an outage): the call changes nothing.
Faults == {"none", "ServiceFailure"}

VARIABLES
  name,        \* self.name: which of the three helpers was constructed
  \* --- the identity service's account
  roles,       \* role names that exist
  policies,    \* managed policy names that exist
  attached,    \* role -> managed policies attached to it
  inline,      \* role -> inline policies on it
  profiles,    \* instance profile names that exist
  members,     \* instance profile -> roles it holds
  \* --- the compute service's account and the local file system
  keypairs,    \* key pair name -> its material (0: no such key pair)
  issued,      \* key materials issued so far
  instances,   \* ids of the instances in the account
  launched,    \* instances launched so far (ids are 1..launched)
  assoc,       \* ids of the instances an instance profile is associated with
  files,       \* key file -> the material written in it (0: nothing)
  \* --- the storage service
  buckets,     \* bucket names that exist and belong to the caller
  foreign,     \* bucket names that exist and belong to somebody else
  nonempty,    \* buckets of the caller that hold objects
  bpolicy,     \* bucket -> its policy document ("none": no policy)
  bucketname,  \* self.bucketname
  \* --- the callers
  pc,          \* caller -> where it stands in the method it is running
  frame,       \* caller -> the arguments and locals of that method
  calls,       \* caller -> the provider calls its current/last method issued
  result,      \* caller -> how its last method ended
  prior,       \* caller -> the StorageBucket method before the last one
  alone        \* caller -> no other caller was active during its method

idvars  == <<roles, policies, attached, inline, profiles, members>>
ec2vars == <<keypairs, issued, instances, launched, assoc, files>>
s3vars  == <<buckets, foreign, nonempty, bpolicy, bucketname>>
clvars  == <<pc, frame, calls, result, prior, alone>>
vars    == <<name, idvars, ec2vars, s3vars, clvars>>

\* ------------------------------------------------------------ values
\* Python values a method returns: None, True/False, an ARN, an instance id,
\* a provider response.
None      == <<"None">>
PyTrue    == <<"bool", "True">>
PyFalse   == <<"bool", "False">>
Arn(kind, n) == <<"arn:aws:iam", kind, n>>

\* Exceptions: a provider error is a ClientError carrying the provider's code.
ClientError(code) == [type |-> "ClientError", code |-> code]
UnboundLocalError == [type |-> "UnboundLocalError", code |-> ""]
TypeError         == [type |-> "TypeError", code |-> ""]
AttributeError    == [type |-> "AttributeError", code |-> ""]
NoExc             == [type |-> "", code |-> ""]

\* How a method ended.  perr is the code of the provider error the method
\* received ("" when every provider call succeeded).
NoResult == [op |-> "", arg |-> <<>>, outcome |-> "", value |-> None,
             exc |-> NoExc, perr |-> "", logged |-> <<>>]
Returned(op, arg, v, perr, logged) ==
  [op |-> op, arg |-> arg, outcome |-> "return", value |-> v,
   exc |-> NoExc, perr |-> perr, logged |-> logged]
Raised(op, arg, exc, perr, logged) ==
  [op |-> op, arg |-> arg, outcome |-> "raise", value |-> None,
   exc |-> exc, perr |-> perr, logged |-> logged]

NoFrame == [op |-> ""]

\* A provider call in the log: <<api, target, answer, response>>, answer "ok"
\* or an error code, response the number the provider answered with (a key
\* material, an instance id; 0 when the call carries none).
CallR(api, target, answer, resp) == <<api, target, answer, resp>>
Call(api, target, answer) == CallR(api, target, answer, 0)

\* The provider's answer to a call: the injected fault, else the account's rule.
Answer(fault, rule) == IF fault # "none" THEN fault ELSE rule

\* The caller of the helpers whose methods the specification never overlaps
\* (the helpers hold no lock; spec section 5 takes their calls one at a time).
Main == "A"

\* -------------------------------------------------------------- bookkeeping
\* The other callers that are inside a method are no longer alone, and the
\* entering caller is alone when nobody else is inside one.
Overlap(c) ==
  [d \in Callers |->
     IF d = c THEN \A e \in Callers \ {c} : pc[e] = "idle"
     ELSE IF pc[d] # "idle" THEN FALSE ELSE alone[d]]

\* A method that starts and ends in one step.
Finish(c, res, log) ==
  /\ pc[c] = "idle"
  /\ calls'  = [calls  EXCEPT ![c] = log]
  /\ result' = [result EXCEPT ![c] = res]
  /\ alone'  = Overlap(c)
  /\ UNCHANGED <<pc, frame, prior>>

\* A method that goes on after its first provider call.
Enter(c, fr, at, log) ==
  /\ pc[c] = "idle"
  /\ pc'     = [pc     EXCEPT ![c] = at]
  /\ frame'  = [frame  EXCEPT ![c] = fr]
  /\ calls'  = [calls  EXCEPT ![c] = log]
  /\ result' = [result EXCEPT ![c] = NoResult]
  /\ alone'  = Overlap(c)
  /\ UNCHANGED prior

\* A later step of a method that stays in the method.
Step(c, fr, at, call) ==
  /\ pc'    = [pc    EXCEPT ![c] = at]
  /\ frame' = [frame EXCEPT ![c] = fr]
  /\ calls' = [calls EXCEPT ![c] = Append(calls[c], call)]
  /\ UNCHANGED <<result, prior, alone>>

\* A later step of a method that ends it.
Leave(c, res, call) ==
  /\ pc'     = [pc     EXCEPT ![c] = "idle"]
  /\ frame'  = [frame  EXCEPT ![c] = NoFrame]
  /\ calls'  = [calls  EXCEPT ![c] = Append(calls[c], call)]
  /\ result' = [result EXCEPT ![c] = res]
  /\ UNCHANGED <<prior, alone>>

\* ===================================================================
\* IAMAdmin
\* ===================================================================

\* ---- the identity service's rules
CreateRoleRule(r) == IF r \in roles THEN "EntityAlreadyExists" ELSE "ok"
CreatePolicyRule(p) == IF p \in policies THEN "EntityAlreadyExists" ELSE "ok"
\* (asked about a policy that create_policy has just created)
AttachRolePolicyRule(r) == IF r \in roles THEN "ok" ELSE "NoSuchEntity"
ListRule(r) == IF r \in roles THEN "ok" ELSE "NoSuchEntity"
DetachPolicyRule(r, p) ==
  IF r \notin roles \/ p \notin attached[r] THEN "NoSuchEntity" ELSE "ok"
RemoveRoleRule(q, r) ==
  IF q \notin profiles \/ r \notin members[q] THEN "NoSuchEntity" ELSE "ok"
RolePolicyDeleteRule(r, i) ==
  IF r \notin roles \/ i \notin inline[r] THEN "NoSuchEntity" ELSE "ok"
\* The provider does not cascade: a role with anything attached is kept.
HasAttachments(r) ==
  \/ attached[r] # {}
  \/ inline[r] # {}
  \/ \E q \in profiles : r \in members[q]
RoleDeleteRule(r) ==
  IF r \notin roles THEN "NoSuchEntity"
  ELSE IF HasAttachments(r) THEN "DeleteConflict" ELSE "ok"
CreateInstanceProfileRule(q) ==
  IF q \in profiles THEN "EntityAlreadyExists" ELSE "ok"
\* An instance profile holds one role at most.
AddRoleToInstanceProfileRule(q, r) ==
  IF q \notin profiles \/ r \notin roles THEN "NoSuchEntity"
  ELSE IF members[q] # {} THEN "LimitExceeded" ELSE "ok"
GetInstanceProfileRule(q) == IF q \in profiles THEN "ok" ELSE "NoSuchEntity"

\* ---- create_role
create_role(c, r) ==
  \E fault \in Faults :
    LET a == Answer(fault, CreateRoleRule(r))
        log == <<Call("create_role", r, a)>>
    IN IF a = "ok"
       THEN /\ roles' = roles \cup {r}
            /\ Finish(c, Returned("create_role", <<r>>, Arn("role", r), "", <<>>), log)
            /\ UNCHANGED <<policies, attached, inline, profiles, members>>
       ELSE /\ Finish(c, Raised("create_role", <<r>>, ClientError(a), a,
                                <<"Couldn't create role">>), log)
            /\ UNCHANGED idvars

\* ---- create_policy: create the policy, then attach it to the role
\* (variant: a failed attach deletes the policy again)
CreatePolicyAccount_Rollback(p, r, a1, a2) ==
  IF a1 = "ok" /\ a2 = "ok"
  THEN [policies |-> policies \cup {p},
        attached |-> [attached EXCEPT ![r] = @ \cup {p}]]
  ELSE [policies |-> policies, attached |-> attached]

\* What the account holds after create_policy's calls answered a1 and a2.
CreatePolicyAccount(p, r, a1, a2) ==
  IF a1 # "ok" THEN [policies |-> policies, attached |-> attached]
  ELSE IF a2 # "ok" THEN [policies |-> policies \cup {p}, attached |-> attached]
  ELSE [policies |-> policies \cup {p},
        attached |-> [attached EXCEPT ![r] = @ \cup {p}]]

\* The provider calls create_policy issues when they answer a1 and a2.
CreatePolicyCalls(p, r, a1, a2) ==
  IF a1 # "ok" THEN <<Call("create_policy", p, a1)>>
  ELSE <<Call("create_policy", p, a1), Call("attach_role_policy", p, a2)>>

create_policy(c, p, r) ==
  \E f1, f2 \in Faults :
    LET a1 == Answer(f1, CreatePolicyRule(p))
        \* the attach call sees the account with the new policy in it
        a2 == Answer(f2, AttachRolePolicyRule(r))
        acc == CreatePolicyAccount(p, r, a1, a2)
        log == CreatePolicyCalls(p, r, a1, a2)
        err == IF a1 # "ok" THEN a1 ELSE a2
    IN /\ policies' = acc.policies
       /\ attached' = acc.attached
       /\ UNCHANGED <<roles, inline, profiles, members>>
       /\ IF err = "ok"
          THEN Finish(c, Returned("create_policy", <<p, r>>, Arn("policy", p), "", <<>>), log)
          ELSE Finish(c, Raised("create_policy", <<p, r>>, ClientError(err), err,
                                <<"Couldn't create policy", "Error">>), log)

\* ---- delete_role: the ordered teardown
\* (variant: the error is logged and not raised)
DeleteRoleExcept_Swallow(r, code) ==
  Returned("delete_role", <<r>>, None, code, <<"Couldn't delete role", "Error">>)

\* except ClientError: log twice and raise the error.
DeleteRoleExcept(r, code) ==
  Raised("delete_role", <<r>>, ClientError(code), code,
         <<"Couldn't delete role", "Error">>)

DeleteRoleFrame(r, todo) == [op |-> "delete_role", role |-> r, todo |-> todo]

\* role.attached_policies.all(): the first collection is listed
delete_role(c, r) ==
  \E fault \in Faults :
    LET a == Answer(fault, ListRule(r))
        log == <<Call("list_attached_role_policies", r, a)>>
    IN /\ UNCHANGED idvars
       /\ IF a = "ok"
          THEN Enter(c, DeleteRoleFrame(r, attached[r]), "detach_policy", log)
          ELSE Finish(c, DeleteRoleExcept(r, a), log)

\* role.detach_policy(PolicyArn=policy.arn) for the next listed policy
DetachPolicy(c) ==
  /\ pc[c] = "detach_policy"
  /\ \E p \in frame[c].todo, fault \in Faults :
       LET r == frame[c].role
           a == Answer(fault, DetachPolicyRule(r, p))
           call == Call("detach_role_policy", p, a)
       IN IF a = "ok"
          THEN /\ attached' = [attached EXCEPT ![r] = @ \ {p}]
               /\ Step(c, DeleteRoleFrame(r, frame[c].todo \ {p}), "detach_policy", call)
               /\ UNCHANGED <<roles, policies, inline, profiles, members>>
          ELSE /\ Leave(c, DeleteRoleExcept(r, a), call)
               /\ UNCHANGED idvars

\* role.instance_profiles.all(): the second collection is listed
\* once the first list comprehension is through
ListInstanceProfiles(c) ==
  /\ pc[c] = "detach_policy"
  /\ frame[c].todo = {}
  /\ \E fault \in Faults :
       LET r == frame[c].role
           a == Answer(fault, ListRule(r))
           call == Call("list_instance_profiles_for_role", r, a)
       IN /\ UNCHANGED idvars
          /\ IF a = "ok"
             THEN Step(c, DeleteRoleFrame(r, {q \in profiles : r \in members[q]}),
                       "remove_role", call)
             ELSE Leave(c, DeleteRoleExcept(r, a), call)

\* profile.remove_role(RoleName=role.name) for the next listed profile
RemoveRole(c) ==
  /\ pc[c] = "remove_role"
  /\ \E q \in frame[c].todo, fault \in Faults :
       LET r == frame[c].role
           a == Answer(fault, RemoveRoleRule(q, r))
           call == Call("remove_role_from_instance_profile", q, a)
       IN IF a = "ok"
          THEN /\ members' = [members EXCEPT ![q] = @ \ {r}]
               /\ Step(c, DeleteRoleFrame(r, frame[c].todo \ {q}), "remove_role", call)
               /\ UNCHANGED <<roles, policies, attached, inline, profiles>>
          ELSE /\ Leave(c, DeleteRoleExcept(r, a), call)
               /\ UNCHANGED idvars

\* (variant: the inline-policy phase finds nothing to delete)
ListRolePolicies_NoInline(c) ==
  /\ pc[c] = "remove_role"
  /\ frame[c].todo = {}
  /\ UNCHANGED idvars
  /\ Step(c, DeleteRoleFrame(frame[c].role, {}), "policy_delete",
          Call("list_role_policies", frame[c].role, "ok"))

\* role.policies.all(): the third collection is listed
ListRolePolicies(c) ==
  /\ pc[c] = "remove_role"
  /\ frame[c].todo = {}
  /\ \E fault \in Faults :
       LET r == frame[c].role
           a == Answer(fault, ListRule(r))
           call == Call("list_role_policies", r, a)
       IN /\ UNCHANGED idvars
          /\ IF a = "ok"
             THEN Step(c, DeleteRoleFrame(r, inline[r]), "policy_delete", call)
             ELSE Leave(c, DeleteRoleExcept(r, a), call)

\* role_policy.delete() for the next listed inline policy
RolePolicyDelete(c) ==
  /\ pc[c] = "policy_delete"
  /\ \E i \in frame[c].todo, fault \in Faults :
       LET r == frame[c].role
           a == Answer(fault, RolePolicyDeleteRule(r, i))
           call == Call("delete_role_policy", i, a)
       IN IF a = "ok"
          THEN /\ inline' = [inline EXCEPT ![r] = @ \ {i}]
               /\ Step(c, DeleteRoleFrame(r, frame[c].todo \ {i}), "policy_delete", call)
               /\ UNCHANGED <<roles, policies, attached, profiles, members>>
          ELSE /\ Leave(c, DeleteRoleExcept(r, a), call)
               /\ UNCHANGED idvars

\* role.delete(), then the else branch returns True
RoleDelete(c) ==
  /\ pc[c] = "policy_delete"
  /\ frame[c].todo = {}
  /\ \E fault \in Faults :
       LET r == frame[c].role
           a == Answer(fault, RoleDeleteRule(r))
           call == Call("delete_role", r, a)
       IN IF a = "ok"
          THEN /\ roles' = roles \ {r}
               /\ Leave(c, Returned("delete_role", <<r>>, PyTrue, "", <<>>), call)
               /\ UNCHANGED <<policies, attached, inline, profiles, members>>
          ELSE /\ Leave(c, DeleteRoleExcept(r, a), call)
               /\ UNCHANGED idvars


\* (variant: the except block's "raise error" is not commented out)
create_instance_profile_Raises(c, q) ==
  \E fault \in Faults :
    LET a == Answer(fault, CreateInstanceProfileRule(q))
        log == <<Call("create_instance_profile", q, a)>>
    IN IF a = "ok"
       THEN /\ profiles' = profiles \cup {q}
            /\ Finish(c, Returned("create_instance_profile", <<q>>,
                                  Arn("instance-profile", q), "", <<>>), log)
            /\ UNCHANGED <<roles, policies, attached, inline, members>>
       ELSE /\ Finish(c, Raised("create_instance_profile", <<q>>, ClientError(a), a,
                                <<"Couldn't instance profile", "Error">>), log)
            /\ UNCHANGED idvars

\* ---- create_instance_profile: a provider error is logged and swallowed
create_instance_profile(c, q) ==
  \E fault \in Faults :
    LET a == Answer(fault, CreateInstanceProfileRule(q))
        log == <<Call("create_instance_profile", q, a)>>
    IN IF a = "ok"
       THEN /\ profiles' = profiles \cup {q}
            /\ Finish(c, Returned("create_instance_profile", <<q>>,
                                  Arn("instance-profile", q), "", <<>>), log)
            /\ UNCHANGED <<roles, policies, attached, inline, members>>
       ELSE \* "#raise error": the method falls off its end and returns None
            /\ Finish(c, Returned("create_instance_profile", <<q>>, None, a,
                                  <<"Couldn't instance profile", "Error">>), log)
            /\ UNCHANGED idvars

\* ---- add_role_instance_profile
\* self.LOGGER(...) in the try body: a logging.Logger is not callable.
AddRoleTryBody(q, arn, r) ==
  Raised("add_role_instance_profile", <<q, arn, r>>, TypeError, "", <<>>)

\* except ClientError: the second log line reads instance_role_profile, which
\* the failed call never bound.
AddRoleExcept(q, arn, r, code) ==
  Raised("add_role_instance_profile", <<q, arn, r>>, UnboundLocalError, code,
         <<"Couldn't Add role">>)

add_role_instance_profile(c, q, arn, r) ==
  \E fault \in Faults :
    LET a == Answer(fault, AddRoleToInstanceProfileRule(q, r))
        log == <<Call("add_role_to_instance_profile", q, a)>>
    IN IF a = "ok"
       THEN /\ members' = [members EXCEPT ![q] = @ \cup {r}]
            /\ Finish(c, AddRoleTryBody(q, arn, r), log)
            /\ UNCHANGED <<roles, policies, attached, inline, profiles>>
       ELSE /\ Finish(c, AddRoleExcept(q, arn, r, a), log)
            /\ UNCHANGED idvars

\* ---- get_instance_profile: a provider error is logged and swallowed
get_instance_profile(c, q) ==
  \E fault \in Faults :
    LET a == Answer(fault, GetInstanceProfileRule(q))
        log == <<Call("get_instance_profile", q, a)>>
    IN /\ UNCHANGED idvars
       /\ IF a = "ok"
          THEN Finish(c, Returned("get_instance_profile", <<q>>,
                                  Arn("instance-profile", q), "", <<>>), log)
          ELSE Finish(c, Returned("get_instance_profile", <<q>>, None, a,
                                  <<"Couldn't get instance profile", "Error">>), log)

\* A method or step of IAMAdmin: it needs an IAMAdmin object and touches
\* nothing but the identity service.
IAMAdmin(A) ==
  /\ name = "IAM Admin"
  /\ A
  /\ UNCHANGED <<name, ec2vars, s3vars>>

\* ===================================================================
\* InstanceManagement
\* ===================================================================

\* ---- the compute service's rules
\* Deleting a key pair that does not exist succeeds.
DeleteKeyPairRule(k) == "ok"
CreateKeyPairRule(k) == IF keypairs[k] # 0 THEN "InvalidKeyPair.Duplicate" ELSE "ok"
AssociateRule(i) ==
  IF i \notin instances THEN "InvalidInstanceID.NotFound"
  ELSE IF i \in assoc THEN "IncorrectState" ELSE "ok"

\* The locals of create_instance.  material: key_pair_out (0: not yet bound);
\* bound: whether the local `instances` has been assigned.
CreateInstanceFrame(f, k, material, bound) ==
  [op |-> "create_instance", key_file |-> f, key_pair |-> k,
   material |-> material, bound |-> bound]

\* except ClientError: the first statement logs the local `instances`, which is
\* bound only once create_instances has returned.
CreateInstanceExcept(fr, code) ==
  IF fr.bound
  THEN Raised("create_instance", <<fr.key_file, fr.key_pair>>, ClientError(code), code,
              <<"instances", "Couldn't create EC2 Instance", "Error">>)
  ELSE Raised("create_instance", <<fr.key_file, fr.key_pair>>, UnboundLocalError, code,
              <<>>)

\* ec2.delete_key_pair(KeyName=key_pair)
create_instance(c, f, k) ==
  \E fault \in Faults :
    LET a == Answer(fault, DeleteKeyPairRule(k))
        \* the log keeps the material of the key pair the call removed
        log == <<CallR("delete_key_pair", k, a, IF a = "ok" THEN keypairs[k] ELSE 0)>>
        fr == CreateInstanceFrame(f, k, 0, FALSE)
    IN IF a = "ok"
       THEN /\ keypairs' = [keypairs EXCEPT ![k] = 0]
            /\ Enter(c, fr, "create_key_pair", log)
            /\ UNCHANGED <<issued, instances, launched, assoc, files>>
       ELSE /\ Finish(c, CreateInstanceExcept(fr, a), log)
            /\ UNCHANGED ec2vars

\* ec2.create_key_pair(KeyName=key_pair); key_pair_out = its KeyMaterial
CreateKeyPair(c) ==
  /\ pc[c] = "create_key_pair"
  /\ issued < MaxMaterial
  /\ \E fault \in Faults :
       LET fr == frame[c]
           a == Answer(fault, CreateKeyPairRule(fr.key_pair))
           call == CallR("create_key_pair", fr.key_pair, a,
                         IF a = "ok" THEN issued + 1 ELSE 0)
       IN IF a = "ok"
          THEN /\ issued' = issued + 1
               /\ keypairs' = [keypairs EXCEPT ![fr.key_pair] = issued + 1]
               /\ Step(c, [fr EXCEPT !.material = issued + 1], "write", call)
               /\ UNCHANGED <<instances, launched, assoc, files>>
          ELSE /\ Leave(c, CreateInstanceExcept(fr, a), call)
               /\ UNCHANGED ec2vars

\* (variant: the key file is not written before the launch)
WriteKeyFile_NotYet(c) ==
  /\ pc[c] = "write"
  /\ Step(c, frame[c], "create_instances", CallR("write", frame[c].key_file, "ok", frame[c].material))
  /\ UNCHANGED ec2vars

\* with open(key_file, 'w') as opened_file: opened_file.write(key_pair_out)
WriteKeyFile(c) ==
  /\ pc[c] = "write"
  /\ files' = [files EXCEPT ![frame[c].key_file] = frame[c].material]
  /\ Step(c, frame[c], "create_instances", CallR("write", frame[c].key_file, "ok", frame[c].material))
  /\ UNCHANGED <<keypairs, issued, instances, launched, assoc>>

\* self.ec2.create_instances(..., MinCount=1, MaxCount=1, KeyName=key_pair)
CreateInstances(c) ==
  /\ pc[c] = "create_instances"
  /\ launched < MaxLaunches
  /\ \E fault \in Faults :
       LET fr == frame[c]
           a == Answer(fault, "ok")
           call == CallR("create_instances", fr.key_pair, a,
                         IF a = "ok" THEN launched + 1 ELSE 0)
       IN IF a = "ok"
          THEN /\ launched' = launched + 1
               /\ instances' = instances \cup {launched + 1}
               /\ Step(c, [fr EXCEPT !.bound = TRUE],
                       "instances_all", call)
               /\ UNCHANGED <<keypairs, issued, assoc, files>>
          ELSE /\ Leave(c, CreateInstanceExcept(fr, a), call)
               /\ UNCHANGED ec2vars

\* (variant: the id is read from the launch response)
ScanInstances_FromResponse(c) ==
  /\ pc[c] = "instances_all"
  /\ UNCHANGED ec2vars
  /\ \E fault \in Faults :
       LET fr == frame[c]
           a == Answer(fault, "ok")
       IN IF a = "ok"
          THEN \E last \in instances :
                 Leave(c, Returned("create_instance", <<fr.key_file, fr.key_pair>>,
                                   <<"instance-id", calls[c][4][4]>>, "", <<>>),
                       CallR("describe_instances", fr.key_pair, a, last))
          ELSE Leave(c, CreateInstanceExcept(fr, a),
                     Call("describe_instances", fr.key_pair, a))

\* for instance in self.ec2.instances.all(): instance_id = instance.id
\* The provider lists the account's instances in an order of its choosing;
\* instance_id is the id the listing ends with.
ScanInstances(c) ==
  /\ pc[c] = "instances_all"
  /\ UNCHANGED ec2vars
  /\ \E fault \in Faults :
       LET fr == frame[c]
           a == Answer(fault, "ok")
       IN IF a = "ok"
          THEN \* the log keeps the id the listing ended with
               \E last \in instances :
                 Leave(c, Returned("create_instance", <<fr.key_file, fr.key_pair>>,
                                   <<"instance-id", last>>, "", <<>>),
                       CallR("describe_instances", fr.key_pair, a, last))
          ELSE Leave(c, CreateInstanceExcept(fr, a),
                     Call("describe_instances", fr.key_pair, a))

\* ---- associate_profile_to_instance
associate_profile_to_instance(c, q, i) ==
  \E fault \in Faults :
    LET a == Answer(fault, AssociateRule(i))
        log == <<Call("associate_iam_instance_profile", i, a)>>
    IN IF a = "ok"
       THEN /\ assoc' = assoc \cup {i}
            /\ Finish(c, Returned("associate_profile_to_instance", <<q, i>>,
                                  <<"association", q, i>>, "", <<>>), log)
            /\ UNCHANGED <<keypairs, issued, instances, launched, files>>
       ELSE /\ Finish(c, Raised("associate_profile_to_instance", <<q, i>>,
                                ClientError(a), a,
                                <<"Error", "Couldn't associate EC2 Instance">>), log)
            /\ UNCHANGED ec2vars

InstanceManagement(A) ==
  /\ name = "Instance Management"
  /\ A
  /\ UNCHANGED <<name, idvars, s3vars>>

\* ===================================================================
\* StorageBucket
\* ===================================================================
Policies == {"P1", "P2"}
\* json.dumps / json.loads of a policy document
JsonDumps(doc) == <<"json", doc>>
JsonLoads(text) == text[2]

\* The region-mismatch code create_bucket looks for.
IllegalLocation == "IllegalLocationConstraintException"

\* ---- the storage service's rules
CreateBucketRule(b) ==
  IF b \in buckets THEN "BucketAlreadyOwnedByYou"
  ELSE IF b \in foreign THEN "BucketAlreadyExists" ELSE "ok"
\* head_bucket: 404 for a missing bucket, 403 for somebody else's
HeadBucketRule(b) ==
  IF b \in buckets THEN "ok" ELSE IF b \in foreign THEN "403" ELSE "404"
AccessRule(b) ==
  IF b \in buckets THEN "ok"
  ELSE IF b \in foreign THEN "AccessDenied" ELSE "NoSuchBucket"
DeleteBucketRule(b) ==
  IF AccessRule(b) # "ok" THEN AccessRule(b)
  ELSE IF b \in nonempty THEN "BucketNotEmpty" ELSE "ok"
GetBucketPolicyRule(b) ==
  IF AccessRule(b) # "ok" THEN AccessRule(b)
  ELSE IF bpolicy[b] = "none" THEN "NoSuchBucketPolicy" ELSE "ok"

\* What is kept of the call made before the last one: that it was a
\* create_bucket or a delete_bucket that returned, and for which bucket.
Brief(res) ==
  IF res.op \in {"create_bucket", "delete_bucket"} /\ res.outcome = "return"
  THEN [op |-> res.op, arg |-> res.arg]
  ELSE [op |-> "", arg |-> <<>>]

\* A method of StorageBucket ends: the result before it becomes the prior one.
FinishS3(c, res, log) ==
  /\ pc[c] = "idle"
  /\ calls'  = [calls  EXCEPT ![c] = log]
  /\ result' = [result EXCEPT ![c] = res]
  /\ prior'  = [prior  EXCEPT ![c] = Brief(result[c])]
  /\ alone'  = Overlap(c)
  /\ UNCHANGED <<pc, frame>>

\* ---- create_bucket_name
\* A Python str is the sequence of its characters.
HexDigits ==
  <<"0", "1", "2", "3", "4", "5", "6", "7", "8", "9", "a", "b", "c", "d", "e", "f">>

\* The 32 hex digits of the n-th version-4 UUID the generator may draw:
\* digit 13 is the version, digit 17 carries the variant.
UuidHex(n) ==
  [i \in 1..32 |->
     IF i = 13 THEN "4"
     ELSE IF i = 17 THEN HexDigits[9 + (n % 4)]
     ELSE HexDigits[((n * i) % 16) + 1]]

\* str(uuid): the digits in groups of 8-4-4-4-12, hyphens between them.
UuidStr(n) ==
  LET h == UuidHex(n)
  IN SubSeq(h, 1, 8) \o <<"-">> \o SubSeq(h, 9, 12) \o <<"-">>
     \o SubSeq(h, 13, 16) \o <<"-">> \o SubSeq(h, 17, 20) \o <<"-">>
     \o SubSeq(h, 21, 32)

\* ''.join(parts)
RECURSIVE Join(_)
Join(parts) ==
  IF parts = <<>> THEN <<>> ELSE Head(parts) \o Join(Tail(parts))

\* The prefixes a caller may pass: "sth" (the constructor's) and strings of
\* every length up to MaxPrefixLen.
Prefixes ==
  {<<"s", "t", "h">>} \cup {[i \in 1..n |-> "a"] : n \in 0..MaxPrefixLen}

\* return ''.join([bucket_prefix, str(uuid.uuid4())]): no provider call, no
\* check of the length
create_bucket_name(c, bucket_prefix) ==
  \E n \in 1..NumUuids :
    /\ FinishS3(c, Returned("create_bucket_name", <<bucket_prefix>>,
                            <<"str", Join(<<bucket_prefix, UuidStr(n)>>)>>, "", <<>>),
                <<>>)
    /\ UNCHANGED s3vars

\* ---- create_bucket
\* except ClientError: the hint's arguments read self.s3resources3, an
\* attribute the object does not have, before anything of the hint is logged.
CreateBucketExcept(b, code) ==
  IF code = IllegalLocation
  THEN Raised("create_bucket", <<b>>, AttributeError, code,
              <<"Couldn't create bucket">>)
  ELSE Raised("create_bucket", <<b>>, ClientError(code), code,
              <<"Couldn't create bucket">>)

create_bucket(c) ==
  \E fault \in Faults \cup {IllegalLocation} :
    LET b == bucketname
        a == Answer(fault, CreateBucketRule(b))
    IN IF a = "ok"
       THEN \* bucket_response.wait_until_exists() polls head_bucket
            /\ buckets' = buckets \cup {b}
            /\ FinishS3(c, Returned("create_bucket", <<b>>, <<"Bucket", b>>, "",
                                  <<"Created bucket">>),
                      <<Call("create_bucket", b, a), Call("head_bucket", b, "ok")>>)
            /\ UNCHANGED <<foreign, nonempty, bpolicy, bucketname>>
       ELSE /\ FinishS3(c, CreateBucketExcept(b, a), <<Call("create_bucket", b, a)>>)
            /\ UNCHANGED s3vars

\* ---- list_buckets: no try block, a provider error passes through
list_buckets(c) ==
  \E fault \in Faults :
    LET a == Answer(fault, "ok")
        log == <<Call("list_buckets", "", a)>>
    IN /\ UNCHANGED s3vars
       /\ IF a = "ok"
          THEN FinishS3(c, Returned("list_buckets", <<>>, None, "", <<>>), log)
          ELSE FinishS3(c, Raised("list_buckets", <<>>, ClientError(a), a, <<>>), log)

\* (variant: only a 404 counts as "does not exist")
bucket_exists_Only404(c, b) ==
  \E fault \in Faults :
    LET a == Answer(fault, HeadBucketRule(b))
        log == <<Call("head_bucket", b, a)>>
    IN /\ UNCHANGED s3vars
       /\ IF a # "404"
          THEN FinishS3(c, Returned("bucket_exists", <<b>>, PyTrue, IF a = "ok" THEN "" ELSE a,
                                    <<"Bucket exists">>), log)
          ELSE FinishS3(c, Returned("bucket_exists", <<b>>, PyFalse, a,
                                    <<"Bucket doesn't exist or no access">>), log)

\* ---- bucket_exists: any ClientError of head_bucket means False
bucket_exists(c, b) ==
  \E fault \in Faults :
    LET a == Answer(fault, HeadBucketRule(b))
        log == <<Call("head_bucket", b, a)>>
    IN /\ UNCHANGED s3vars
       /\ IF a = "ok"
          THEN FinishS3(c, Returned("bucket_exists", <<b>>, PyTrue, "",
                                  <<"Bucket exists">>), log)
          ELSE FinishS3(c, Returned("bucket_exists", <<b>>, PyFalse, a,
                                  <<"Bucket doesn't exist or no access">>), log)

\* ---- delete_bucket
delete_bucket(c, b) ==
  \E fault \in Faults :
    LET a == Answer(fault, DeleteBucketRule(b))
    IN IF a = "ok"
       THEN \* bucket.wait_until_not_exists() polls head_bucket
            /\ buckets' = buckets \ {b}
            /\ bpolicy' = [bpolicy EXCEPT ![b] = "none"]
            /\ FinishS3(c, Returned("delete_bucket", <<b>>, None, "",
                                  <<"Bucket successfully deleted">>),
                      <<Call("delete_bucket", b, a), Call("head_bucket", b, "404")>>)
            /\ UNCHANGED <<foreign, nonempty, bucketname>>
       ELSE /\ FinishS3(c, Raised("delete_bucket", <<b>>, ClientError(a), a,
                                <<"Couldn't delete bucket">>),
                      <<Call("delete_bucket", b, a)>>)
            /\ UNCHANGED s3vars

\* ---- get_acl
get_acl(c, b) ==
  \E fault \in Faults :
    LET a == Answer(fault, AccessRule(b))
        log == <<Call("get_bucket_acl", b, a)>>
    IN /\ UNCHANGED s3vars
       /\ IF a = "ok"
          THEN FinishS3(c, Returned("get_acl", <<b>>, <<"Acl", b>>, "", <<"Got ACL">>), log)
          ELSE FinishS3(c, Raised("get_acl", <<b>>, ClientError(a), a,
                                <<"Couldn't get ACL">>), log)

\* ---- put_policy
put_policy(c, b, doc) ==
  \E fault \in Faults :
    LET a == Answer(fault, AccessRule(b))
        log == <<Call("put_bucket_policy", b, a)>>
    IN IF a = "ok"
       THEN /\ bpolicy' = [bpolicy EXCEPT ![b] = JsonDumps(doc)]
            /\ FinishS3(c, Returned("put_policy", <<b>>, None, "", <<"Put policy">>), log)
            /\ UNCHANGED <<buckets, foreign, nonempty, bucketname>>
       ELSE /\ FinishS3(c, Raised("put_policy", <<b>>, ClientError(a), a,
                                <<"Couldn't apply policy">>), log)
            /\ UNCHANGED s3vars

\* ---- get_policy
get_policy(c, b) ==
  \E fault \in Faults :
    LET a == Answer(fault, GetBucketPolicyRule(b))
        log == <<Call("get_bucket_policy", b, a)>>
    IN /\ UNCHANGED s3vars
       /\ IF a = "ok"
          THEN FinishS3(c, Returned("get_policy", <<b>>, <<"doc", JsonLoads(bpolicy[b])>>,
                                  "", <<"Got policy">>), log)
          ELSE FinishS3(c, Raised("get_policy", <<b>>, ClientError(a), a,
                                <<"Couldn't get policy">>), log)

\* ---- delete_policy
delete_policy(c, b) ==
  \E fault \in Faults :
    LET a == Answer(fault, AccessRule(b))
        log == <<Call("delete_bucket_policy", b, a)>>
    IN IF a = "ok"
       THEN /\ bpolicy' = [bpolicy EXCEPT ![b] = "none"]
            /\ FinishS3(c, Returned("delete_policy", <<b>>, None, "", <<"Deleted policy">>), log)
            /\ UNCHANGED <<buckets, foreign, nonempty, bucketname>>
       ELSE /\ FinishS3(c, Raised("delete_policy", <<b>>, ClientError(a), a,
                                <<"Couldn't delete policy">>), log)
            /\ UNCHANGED s3vars

StorageBucket(A) ==
  /\ name = "Storage Bucket"
  /\ A
  /\ UNCHANGED <<name, idvars, ec2vars>>

\* ===================================================================
\* The helpers after construction, and their methods
\* ===================================================================
Idle ==
  /\ pc = [c \in Callers |-> "idle"]
  /\ frame = [c \in Callers |-> NoFrame]
  /\ calls = [c \in Callers |-> <<>>]
  /\ result = [c \in Callers |-> NoResult]
  /\ prior = [c \in Callers |-> Brief(NoResult)]
  /\ alone = [c \in Callers |-> TRUE]

\* An account nobody has used yet.
EmptyIdentity ==
  /\ roles = {} /\ policies = {} /\ profiles = {}
  /\ attached = [r \in RoleNames |-> {}]
  /\ inline = [r \in RoleNames |-> {}]
  /\ members = [q \in ProfileNames |-> {}]
EmptyCompute ==
  /\ keypairs = [k \in KeyNames |-> 0]
  /\ issued = 0 /\ instances = {} /\ launched = 0 /\ assoc = {}
  /\ files = [f \in KeyFiles |-> 0]
EmptyStorage ==
  /\ buckets = {} /\ foreign = {} /\ nonempty = {}
  /\ bpolicy = [b \in BucketNames |-> "none"]
  /\ bucketname = "sth-uuid1"

\* IAMAdmin.__init__: the account may hold roles made elsewhere, with inline
\* policies on them (no method of the helper creates an inline policy).
InitIAMAdmin ==
  /\ name = "IAM Admin"
  /\ roles \in SUBSET RoleNames
  /\ inline \in [RoleNames -> SUBSET InlineNames]
  /\ \A r \in RoleNames \ roles : inline[r] = {}
  /\ policies = {} /\ profiles = {}
  /\ attached = [r \in RoleNames |-> {}]
  /\ members = [q \in ProfileNames |-> {}]
  /\ EmptyCompute /\ EmptyStorage

\* InstanceManagement.__init__: the account may hold key pairs and an
\* instance launched elsewhere.
InitInstanceManagement ==
  /\ name = "Instance Management"
  /\ issued \in 0..1
  /\ keypairs = [k \in KeyNames |-> IF k = "key-a" THEN issued ELSE 0]
  /\ launched \in 0..1
  /\ instances = 1..launched
  /\ assoc = {}
  /\ files = [f \in KeyFiles |-> 0]
  /\ EmptyIdentity /\ EmptyStorage

\* StorageBucket.__init__: self.bucketname is generated; the store may hold
\* buckets of the caller (empty or not) and buckets of other accounts.
InitStorageBucket ==
  /\ name = "Storage Bucket"
  /\ bucketname \in BucketNames
  /\ buckets \in SUBSET BucketNames
  /\ foreign \in SUBSET (BucketNames \ buckets)
  /\ nonempty \in SUBSET buckets
  /\ bpolicy = [b \in BucketNames |-> "none"]
  /\ EmptyIdentity /\ EmptyCompute

Init ==
  /\ Idle
  /\ \/ InitIAMAdmin
     \/ InitInstanceManagement
     \/ InitStorageBucket

Next ==
  \/ \E r \in RoleNames : IAMAdmin(create_role(Main, r))
  \/ \E p \in PolicyNames, r \in RoleNames : IAMAdmin(create_policy(Main, p, r))
  \/ \E r \in RoleNames : IAMAdmin(delete_role(Main, r))
  \/ IAMAdmin(DetachPolicy(Main))
  \/ IAMAdmin(ListInstanceProfiles(Main))
  \/ IAMAdmin(RemoveRole(Main))
  \/ IAMAdmin(ListRolePolicies(Main))
  \/ IAMAdmin(RolePolicyDelete(Main))
  \/ IAMAdmin(RoleDelete(Main))
  \/ \E q \in ProfileNames : IAMAdmin(create_instance_profile(Main, q))
  \/ \E q \in ProfileNames, r \in RoleNames :
       IAMAdmin(add_role_instance_profile(Main, q, Arn("instance-profile", q), r))
  \/ \E q \in ProfileNames : IAMAdmin(get_instance_profile(Main, q))
  \/ \E f \in KeyFiles, k \in KeyNames : InstanceManagement(create_instance(Main, f, k))
  \/ InstanceManagement(CreateKeyPair(Main))
  \/ InstanceManagement(WriteKeyFile(Main))
  \/ InstanceManagement(CreateInstances(Main))
  \/ InstanceManagement(ScanInstances(Main))
  \/ \E q \in ProfileNames, i \in 1..MaxLaunches :
       InstanceManagement(associate_profile_to_instance(Main, q, i))
  \/ \E pre \in Prefixes : StorageBucket(create_bucket_name(Main, pre))
  \/ StorageBucket(create_bucket(Main))
  \/ StorageBucket(list_buckets(Main))
  \/ \E b \in BucketNames : StorageBucket(bucket_exists(Main, b))
  \/ \E b \in BucketNames : StorageBucket(delete_bucket(Main, b))
  \/ \E b \in BucketNames : StorageBucket(get_acl(Main, b))
  \/ \E b \in BucketNames, doc \in Policies : StorageBucket(put_policy(Main, b, doc))
  \/ \E b \in BucketNames : StorageBucket(get_policy(Main, b))
  \/ \E b \in BucketNames : StorageBucket(delete_policy(Main, b))

Spec == Init /\ [][Next]_vars

\* Two callers inside create_instance at the same time, in one account: the
\* helper holds no lock, so their provider calls interleave freely.
InitConcurrent == Idle /\ InitInstanceManagement

NextConcurrent ==
  \E c \in Callers :
    \/ \E f \in KeyFiles, k \in KeyNames : InstanceManagement(create_instance(c, f, k))
    \/ InstanceManagement(CreateKeyPair(c))
    \/ InstanceManagement(WriteKeyFile(c))
    \/ InstanceManagement(CreateInstances(c))
    \/ InstanceManagement(ScanInstances(c))

SpecConcurrent == InitConcurrent /\ [][NextConcurrent]_vars

\* ===================================================================
\* Properties
\* ===================================================================
\* The method a caller is running, or ran last.
CurOp(c) == IF pc[c] # "idle" THEN frame[c].op ELSE result[c].op
Api(e) == e[1]
Target(e) == e[2]
Ans(e) == e[3]
Resp(e) == e[4]
Last(log) == log[Len(log)]

\* The phase of the teardown a provider call of delete_role belongs to.
Phase(api) ==
  CASE api \in {"list_attached_role_policies", "detach_role_policy"} -> 1
    [] api \in {"list_instance_profiles_for_role",
                "remove_role_from_instance_profile"} -> 2
    [] api \in {"list_role_policies", "delete_role_policy"} -> 3
    [] api = "delete_role" -> 4
    [] OTHER -> 0

\* ---- C1
\* C1: delete_role issues its provider calls in the order detach managed
\* policies, remove the role from its instance profiles, delete inline
\* policies, delete the role; when the role-delete call is about to be issued
\* the role has nothing attached, so the provider never answers it with a
\* dependency error, and unless the role is missing or the provider is out
\* of service delete_role returns True with the role gone.
C1_OrderedTeardown ==
  \A c \in Callers :
    CurOp(c) = "delete_role" =>
      LET log == calls[c] IN
      /\ \A i, j \in 1..Len(log) :
           i < j => /\ Phase(Api(log[i])) >= 1
                    /\ Phase(Api(log[i])) <= Phase(Api(log[j]))
      /\ (pc[c] = "policy_delete" /\ frame[c].todo = {})
           => ~HasAttachments(frame[c].role)
      /\ pc[c] = "idle" =>
           /\ Api(Last(log)) = "delete_role"
                => /\ Ans(Last(log)) \in {"ok", "ServiceFailure"}
                   /\ Len(log) >= 4
           /\ result[c].outcome = "raise"
                => \/ result[c].perr = "ServiceFailure"
                   \/ result[c].perr = "NoSuchEntity" /\ Len(log) = 1
           /\ result[c].outcome = "return"
                => /\ result[c].value = PyTrue
                   /\ Api(Last(log)) = "delete_role"
                   /\ result[c].arg[1] \notin roles

\* A role with a managed policy, a profile membership and an inline policy
\* has been torn down and deleted.
C1_Witness ==
  /\ result[Main].op = "delete_role"
  /\ result[Main].outcome = "return"
  /\ \E i, j, k \in 1..Len(calls[Main]) :
       /\ Api(calls[Main][i]) = "detach_role_policy"
       /\ Api(calls[Main][j]) = "remove_role_from_instance_profile"
       /\ Api(calls[Main][k]) = "delete_role_policy"

\* ---- C2
\* C2: when a provider call of delete_role fails it is the last call the
\* method issues, the method raises that provider error (and does not return
\* True), the role still exists when the failed call came after the first
\* listing, and what the earlier calls removed stays removed.
C2_AbortKeepsProgress ==
  \A c \in Callers :
    CurOp(c) = "delete_role" =>
      LET log == calls[c]
          r == IF pc[c] = "idle" THEN result[c].arg[1] ELSE frame[c].role
      IN
      /\ \A i \in 1..Len(log) :
           Ans(log[i]) # "ok" => /\ i = Len(log)
                                 /\ pc[c] = "idle"
                                 /\ result[c].outcome = "raise"
                                 /\ result[c].exc = ClientError(Ans(log[i]))
                                 /\ (i > 1 => r \in roles)
      /\ (pc[c] = "idle" /\ result[c].outcome = "return")
           => \A i \in 1..Len(log) : Ans(log[i]) = "ok"
      /\ pc[c] = "idle" =>
           \A i \in 1..Len(log) :
             Ans(log[i]) = "ok" =>
               /\ Api(log[i]) = "detach_role_policy"
                    => Target(log[i]) \notin attached[r]
               /\ Api(log[i]) = "remove_role_from_instance_profile"
                    => r \notin members[Target(log[i])]
               /\ Api(log[i]) = "delete_role_policy"
                    => Target(log[i]) \notin inline[r]

\* The role delete itself failed after a policy had been detached.
C2_Witness ==
  /\ result[Main].op = "delete_role"
  /\ result[Main].outcome = "raise"
  /\ Len(calls[Main]) >= 5
  /\ Api(Last(calls[Main])) = "delete_role"
  /\ \E i \in 1..Len(calls[Main]) :
       Api(calls[Main][i]) = "detach_role_policy" /\ Ans(calls[Main][i]) = "ok"

\* ---- C3
\* C3: in create_policy, when the create call succeeds and the attach call
\* fails, the provider error is raised, the new policy exists attached to no
\* role and no further call (no delete) is made; when the create call fails
\* it is the only call.
C3_OrphanedPolicy ==
  \A c \in Callers :
    result[c].op = "create_policy" =>
      LET log == calls[c]
          p == result[c].arg[1]
      IN
      /\ Api(log[1]) = "create_policy"
      /\ Ans(log[1]) # "ok"
           => /\ Len(log) = 1
              /\ result[c].outcome = "raise"
              /\ result[c].exc = ClientError(Ans(log[1]))
      /\ Ans(log[1]) = "ok"
           => /\ Len(log) = 2
              /\ Api(log[2]) = "attach_role_policy"
              /\ Ans(log[2]) # "ok"
                   => /\ result[c].outcome = "raise"
                      /\ result[c].exc = ClientError(Ans(log[2]))
                      /\ p \in policies
                      /\ \A r \in RoleNames : p \notin attached[r]
              /\ Ans(log[2]) = "ok" => result[c].outcome = "return"

\* The policy was created and the attach call then failed.
C3_Witness ==
  /\ result[Main].op = "create_policy"
  /\ Len(calls[Main]) = 2
  /\ Ans(calls[Main][1]) = "ok"
  /\ Ans(calls[Main][2]) = "NoSuchEntity"

\* ---- C4
KeySteps ==
  <<"delete_key_pair", "create_key_pair", "write", "create_instances",
    "describe_instances">>

\* C4: create_instance deletes the key pair, creates it anew, writes the key
\* file and only then launches; what it writes is the material the create
\* call returned, never the material the deleted key pair had; and from the
\* write on (so also when the launch fails) the key file holds the material
\* of the key pair the provider has under that name, as long as no other
\* call ran meanwhile.
C4_KeyWrittenBeforeLaunch ==
  \A c \in Callers :
    CurOp(c) = "create_instance" =>
      LET log == calls[c]
          f == IF pc[c] = "idle" THEN result[c].arg[1] ELSE frame[c].key_file
          k == IF pc[c] = "idle" THEN result[c].arg[2] ELSE frame[c].key_pair
      IN
      /\ \A i \in 1..Len(log) :
           /\ Api(log[i]) = KeySteps[i]
           /\ i < Len(log) => Ans(log[i]) = "ok"
      /\ Len(log) >= 3 =>
           /\ Resp(log[3]) = Resp(log[2])
           /\ Resp(log[3]) # 0
           /\ Resp(log[3]) # Resp(log[1])
           /\ alone[c] => /\ files[f] = Resp(log[2])
                          /\ keypairs[k] = files[f]

\* The key pair existed, was rotated, and the launch then failed.
C4_Witness ==
  /\ result[Main].op = "create_instance"
  /\ result[Main].outcome = "raise"
  /\ Len(calls[Main]) = 4
  /\ Resp(calls[Main][1]) # 0
  /\ Ans(calls[Main][4]) # "ok"

\* ---- C5
\* C5: whichever provider call of create_instance fails, create_instance
\* raises that provider error to the caller.
C5_RaisesProviderError ==
  \A c \in Callers :
    (result[c].op = "create_instance" /\ result[c].perr # "")
      => /\ result[c].outcome = "raise"
         /\ result[c].exc = ClientError(result[c].perr)

\* ---- C6
\* C6: when the provider accepts add_role_instance_profile on a profile that
\* holds no role, the method returns the profile_arn it was given and the
\* profile holds exactly that role.
C6_ReturnsProfileArn ==
  \A c \in Callers :
    (result[c].op = "add_role_instance_profile" /\ Ans(calls[c][1]) = "ok")
      => /\ result[c].outcome = "return"
         /\ result[c].value = result[c].arg[2]
         /\ members[result[c].arg[1]] = {result[c].arg[3]}

\* ---- C7
\* C7: every instance profile holds at most one role; a call that would add
\* a second role leaves the profile with the role it had and raises the
\* provider's error unchanged.
C7_SecondRoleRejected ==
  /\ \A q \in ProfileNames : Cardinality(members[q]) <= 1
  /\ \A c \in Callers :
       (result[c].op = "add_role_instance_profile"
          /\ result[c].perr = "LimitExceeded")
         => /\ Cardinality(members[result[c].arg[1]]) = 1
            /\ result[c].outcome = "raise"
            /\ result[c].exc = ClientError("LimitExceeded")

\* ---- C8
\* Caller c ended a method in this step.
Ended(c) ==
  /\ pc'[c] = "idle"
  /\ <<result'[c], calls'[c], prior'[c]>> # <<result[c], calls[c], prior[c]>>

\* A method that has received a provider error returns normally exactly
\* when it is one of `swallowers`; create_instance_profile and
\* get_instance_profile always return: None and an unchanged account after a
\* provider error, the ARN the provider assigned otherwise.
SwallowStep(swallowers) ==
  \A c \in Callers :
    Ended(c) =>
      LET R == result'[c] IN
      /\ R.perr # "" => (R.outcome = "return" <=> R.op \in swallowers)
      /\ R.op \in {"create_instance_profile", "get_instance_profile"} =>
           /\ R.outcome = "return"
           /\ R.perr # "" => /\ R.value = None
                             /\ idvars' = idvars
           /\ R.perr = "" => /\ R.value = Arn("instance-profile", R.arg[1])
                             /\ R.arg[1] \in profiles'

\* C8 as amended: create_instance_profile and get_instance_profile never
\* raise a provider error (None and no change on failure, the assigned ARN
\* on success); they and bucket_exists are the only methods of the three
\* helpers that swallow a provider error.
C8_SwallowersAmended ==
  [][SwallowStep({"create_instance_profile", "get_instance_profile",
                  "bucket_exists"})]_vars

\* C8 as claimed: ... and they are the only two methods that swallow one.
C8_OnlyTwoSwallow ==
  [][SwallowStep({"create_instance_profile", "get_instance_profile"})]_vars

\* create_instance_profile was refused by the provider and returned None.
C8_Witness ==
  /\ result[Main].op = "create_instance_profile"
  /\ result[Main].perr = "EntityAlreadyExists"
  /\ result[Main].outcome = "return"
  /\ result[Main].value = None

\* ---- C9
\* C9: when the provider rejects create_bucket with the region-mismatch code,
\* create_bucket logs the remediation hint and raises that provider error;
\* for any other code it raises the provider error without the hint; either
\* way the create call is the only call and no bucket handle is returned.
C9_RegionHintThenRaise ==
  \A c \in Callers :
    (result[c].op = "create_bucket" /\ result[c].perr # "")
      => /\ result[c].outcome = "raise"
         /\ result[c].exc = ClientError(result[c].perr)
         /\ Len(calls[c]) = 1
         /\ (\E i \in 1..Len(result[c].logged) :
               result[c].logged[i] = "LocationConstraint hint")
              <=> result[c].perr = IllegalLocation

\* ---- C10
\* C10: bucket_exists never raises and never changes the store; it returns
\* True exactly when head_bucket succeeded, so False for a missing bucket and
\* for a bucket of another account; asked about the manager's bucket right
\* after create_bucket returned it answers True, and asked about a bucket
\* right after delete_bucket returned for it it answers False (in both cases
\* unless the provider was out of service for the probe itself).
BucketExistsStep ==
  \A c \in Callers :
    (Ended(c) /\ result'[c].op = "bucket_exists") =>
      LET R == result'[c]
          b == R.arg[1]
      IN
      /\ s3vars' = s3vars
      /\ R.outcome = "return"
      /\ R.value = IF Ans(calls'[c][1]) = "ok" THEN PyTrue ELSE PyFalse
      /\ b \notin buckets => R.value = PyFalse
      /\ (prior'[c] = [op |-> "create_bucket", arg |-> <<b>>]
            /\ R.perr # "ServiceFailure")
           => /\ R.value = PyTrue
              /\ b = bucketname
      /\ (prior'[c] = [op |-> "delete_bucket", arg |-> <<b>>]
            /\ R.perr # "ServiceFailure")
           => /\ R.value = PyFalse
              /\ R.perr = "404"

C10_ExistsRoundTrip == [][BucketExistsStep]_vars

\* The manager's bucket was deleted and bucket_exists then answered False.
C10_Witness ==
  /\ prior[Main] = [op |-> "delete_bucket", arg |-> <<bucketname>>]
  /\ result[Main].op = "bucket_exists"
  /\ result[Main].arg = <<bucketname>>
  /\ result[Main].value = PyFalse
  /\ result[Main].perr = "404"

\* ---- C11
\* C11: for every prefix p, create_bucket_name(p) returns p followed by the
\* generated token, a string of 3 to 63 characters.
C11_NameWithinLimit ==
  \A c \in Callers :
    result[c].op = "create_bucket_name" =>
      LET p == result[c].arg[1]
          s == result[c].value[2]
      IN /\ SubSeq(s, 1, Len(p)) = p
         /\ Len(s) = Len(p) + Len(UuidStr(1))
         /\ Len(s) >= 3
         /\ Len(s) <= 63

\* ---- C12
\* C12: the instance id create_instance returns is the id the listing of the
\* account's instances ended with, not the id in the launch response (both
\* are ids of instances in the account).
C12_IdFromScan ==
  \A c \in Callers :
    (result[c].op = "create_instance" /\ result[c].outcome = "return") =>
      LET log == calls[c] IN
      /\ Len(log) = 5
      /\ Api(log[4]) = "create_instances" /\ Ans(log[4]) = "ok"
      /\ Resp(log[4]) \in instances
      /\ Api(log[5]) = "describe_instances" /\ Ans(log[5]) = "ok"
      /\ Resp(log[5]) \in instances
      /\ result[c].value = <<"instance-id", Resp(log[5])>>

\* Launch A, launch B, scan A, scan B: both calls have returned, B launched
\* after A while A was still running, and A returned the id of B's instance
\* (the newest in the account) instead of the id of its own.
C12_Witness ==
  /\ result["A"].op = "create_instance" /\ result["A"].outcome = "return"
  /\ result["B"].op = "create_instance" /\ result["B"].outcome = "return"
  /\ ~alone["A"]
  /\ Resp(calls["A"][4]) < Resp(calls["B"][4])
  /\ result["A"].value = <<"instance-id", Resp(calls["B"][4])>>
  /\ result["A"].value # <<"instance-id", Resp(calls["A"][4])>>
  /\ result["B"].value = <<"instance-id", Resp(calls["B"][4])>>
  /\ \A i \in instances : i <= Resp(calls["B"][4])

====
